---- MODULE Spec2Model ----
(***************************************************************************)
(* Model of the NYT Strands solver: the Solver class of wordManager.js     *)
(* (prefix tree, findWordsDFS, solvePuzzle with its recursive backtracking *)
(* search) as state machines over small grids.                             *)
(*                                                                         *)
(* Cells are <<row, col>> pairs, 0-based as in the source.  A grid is a    *)
(* sequence of rows, each a sequence of one-letter strings.  A word is a   *)
(* sequence of letters.  A solution entry is a record [word, coords]; a    *)
(* pool entry is a record [word, coords, length] (grid.js:1054).           *)
(***************************************************************************)
EXTENDS Integers, Sequences, FiniteSets, TLC

VARIABLES
    grid,              \* Solver.grid
    wordSet,           \* Solver.wordSet
    prefixTree,        \* Solver.prefixTree
    allWords,          \* solvePuzzle argument: the pool
    existingWords,     \* solvePuzzle argument: the committed words
    maxAttempts,       \* solvePuzzle argument
    prioritizedWords,  \* solvePuzzle local
    usedPositions,     \* solvePuzzle local
    currentSolution,   \* solvePuzzle local
    attempts,          \* solvePuzzle local
    bestSolution,      \* solvePuzzle local
    bestCoverage,      \* solvePuzzle local
    stack,             \* the active solveRecursive frames, innermost last
    pc,                \* position of the solver's control
    callArg,           \* wordIndex argument of the call being entered
    retval,            \* value returned by the solveRecursive call that just ended
    result,            \* value returned by solvePuzzle
    progressLog,       \* the onProgress calls made so far, in order
    cancelSeen,        \* shouldCancel() has returned true at some poll
    hookLog,           \* the calls of onProgress and shouldCancel so far, in order
    afterBudget,       \* some solveRecursive call has found attempts > maxAttempts
    peakCoverage,      \* the largest usedPositions.size reached so far in this run
    findPc,            \* "idle", or "returned" once findWordsDFS has returned
    findArgs,          \* arguments of the last findWordsDFS call
    findResult,        \* value returned by the last findWordsDFS call
    callName,          \* the function of the last call of a pure helper, or "none"
    callInput,         \* its argument
    callOutput,        \* the value it returned
    setWords,          \* WordManager.setWords
    blacklistedWords,  \* WordManager.blacklistedWords
    selectedSetWordIndex, \* WordManager.selectedSetWordIndex
    foundWordsData,    \* WordManager.foundWordsData
    proposedWord,      \* text of the #proposed-word element, <<>> when empty
    solveCancelled,    \* StrandsApp.solveCancelled
    timers,            \* the pending setTimeout callbacks of attemptSolve, oldest first
    running            \* the callback now running the solver, or NoTimer

solverVars == <<allWords, existingWords, maxAttempts, prioritizedWords,
                usedPositions, currentSolution, attempts, bestSolution,
                bestCoverage, stack, pc, callArg, retval, result,
                progressLog, cancelSeen, hookLog, afterBudget, peakCoverage>>
objectVars == <<grid, wordSet, prefixTree>>
findVars == <<findPc, findArgs, findResult>>
callVars == <<callName, callInput, callOutput>>
appVars == <<setWords, blacklistedWords, selectedSetWordIndex, foundWordsData,
             proposedWord, solveCancelled, timers, running>>
vars == <<objectVars, solverVars, findVars, callVars, appVars>>

\* The value of solvePuzzle: null, or a list of [word, coords] entries.
Null == [isNull |-> TRUE, words |-> <<>>]
Value(sol) == [isNull |-> FALSE, words |-> sol]

(***************************************************************************)
(* Bounds of the model and constants of the program.                       *)
(***************************************************************************)
MaxPool == 3
MaxCommitted == 2
MaxBudget == 2
WideCols == 13
MaxDict == 2
MaxUsed == 1
MaxQuery == 5
MaxLines == 2
MaxSide == 2
MaxText == 5
MaxTimers == 2
ProgressInterval == 1000
DefaultMaxAttempts == 100000
MinWordLength == 4
DefaultMaxLength == 15
MaxGridSize == 20

(***************************************************************************)
(* Grid helpers.                                                           *)
(***************************************************************************)
Rows(g) == Len(g)
Cols(g) == Len(g[1])
AllCells(g) == {<<r, c>> : r \in 0..(Rows(g) - 1), c \in 0..(Cols(g) - 1)}
LetterAt(g, cell) == g[cell[1] + 1][cell[2] + 1]
CellsOf(coords) == {coords[k] : k \in 1..Len(coords)}
WordOf(g, coords) == [k \in 1..Len(coords) |-> LetterAt(g, coords[k])]

RECURSIVE SolutionCells(_)
SolutionCells(sol) ==
    IF sol = <<>> THEN {}
    ELSE CellsOf(sol[Len(sol)].coords) \cup SolutionCells(SubSeq(sol, 1, Len(sol) - 1))

(***************************************************************************)
(* solvePuzzle: prioritisation (wordManager.js 440-453).                   *)
(***************************************************************************)
CellScore(cell, rows, cols) ==
    IF (cell[1] = 0 \/ cell[1] = rows - 1) /\ (cell[2] = 0 \/ cell[2] = cols - 1)
    THEN 4
    ELSE IF cell[1] = 0 \/ cell[1] = rows - 1 \/ cell[2] = 0 \/ cell[2] = cols - 1
         THEN 2
         ELSE 1

RECURSIVE PositionScore(_, _, _)
PositionScore(coords, rows, cols) ==
    IF coords = <<>> THEN 0
    ELSE CellScore(coords[1], rows, cols) + PositionScore(Tail(coords), rows, cols)

\* Mutation: the sign of the length term is lost, short words come first.
PriorityShortFirst(length, positionScore) == (length * 1000) - positionScore

\* Mutation: a letter of length weighs 10 instead of 1000.
PriorityLightLength(length, positionScore) == (0 - length * 10) - positionScore

Priority(length, positionScore) == (0 - length * 1000) - positionScore

Scored(entry, rows, cols) ==
    [word |-> entry.word, coords |-> entry.coords, length |-> entry.length,
     positionScore |-> PositionScore(entry.coords, rows, cols),
     priority |-> Priority(entry.length, PositionScore(entry.coords, rows, cols))]

\* Array.prototype.sort with (a, b) => a.priority - b.priority: ascending, stable.
RECURSIVE InsertByPriority(_, _)
InsertByPriority(x, s) ==
    IF s = <<>> THEN <<x>>
    ELSE IF s[Len(s)].priority <= x.priority
         THEN Append(s, x)
         ELSE Append(InsertByPriority(x, SubSeq(s, 1, Len(s) - 1)), s[Len(s)])

\* The part sorted so far is bound once, then the next entry is inserted.
RECURSIVE SortByPriority(_)
SortByPriority(s) ==
    IF s = <<>> THEN <<>>
    ELSE CHOOSE r \in {InsertByPriority(s[Len(s)], sorted) :
                        sorted \in {SortByPriority(SubSeq(s, 1, Len(s) - 1))}} : TRUE

Prioritize(pool, rows, cols) ==
    SortByPriority([k \in 1..Len(pool) |-> Scored(pool[k], rows, cols)])

(***************************************************************************)
(* solvePuzzle: the closures canPlaceWord, placeWord, removeWord.          *)
(***************************************************************************)
\* Mutation: only the first cell of the path is tested.
CanPlaceFirstCell(coords, used) == coords[1] \notin used

CanPlaceWord(coords, used) == \A k \in 1..Len(coords) : coords[k] \notin used

\* Mutation: placeWord marks only the first cell of the path.
PlaceUsedFirstCell(coords, used) == used \cup {coords[1]}

PlaceUsed(coords, used) == used \cup CellsOf(coords)
PlaceSolution(word, coords, sol) == Append(sol, [word |-> word, coords |-> coords])

\* Mutation: backtracking forgets to free the cells of the removed word.
RemoveUsedKeepsCells(sol, used) == used

\* Mutation: backtracking removes the oldest entry instead of the newest.
RemoveOldest(sol) == Tail(sol)

RemoveUsed(sol, used) == used \ CellsOf(sol[Len(sol)].coords)
RemoveSolution(sol) == SubSeq(sol, 1, Len(sol) - 1)

(***************************************************************************)
(* Inputs of the solver runs.                                              *)
(***************************************************************************)
SmallGrid == << <<"A", "B", "A">>, <<"B", "A", "B">> >>

SmallPaths ==
    << << <<0, 0>>, <<0, 1>> >>,
       << <<1, 0>>, <<1, 1>> >>,
       << <<0, 2>>, <<1, 2>> >>,
       << <<0, 0>>, <<1, 0>> >>,
       << <<0, 1>>, <<1, 1>>, <<1, 2>>, <<0, 2>> >>,
       << <<0, 0>>, <<0, 1>>, <<0, 2>>, <<1, 2>>, <<1, 1>> >> >>

PoolEntry(g, coords) ==
    [word |-> WordOf(g, coords), coords |-> coords, length |-> Len(coords)]
SetWordEntry(g, coords) == [word |-> WordOf(g, coords), coords |-> coords]

Injective(f) == \A a, b \in DOMAIN f : a # b => f[a] # f[b]
PairwiseDisjoint(sol) ==
    \A a, b \in 1..Len(sol) : a # b => CellsOf(sol[a].coords) \cap CellsOf(sol[b].coords) = {}

IndexSeqs(n) ==
    {f \in UNION {[1..m -> 1..Len(SmallPaths)] : m \in 0..n} : Injective(f)}

SmallPools ==
    {[k \in 1..Len(f) |-> PoolEntry(SmallGrid, SmallPaths[f[k]])] : f \in IndexSeqs(MaxPool)}
SmallCommitted ==
    {c \in {[k \in 1..Len(f) |-> SetWordEntry(SmallGrid, SmallPaths[f[k]])] :
                f \in IndexSeqs(MaxCommitted)} : PairwiseDisjoint(c)}
SmallBudgets == (1..MaxBudget) \cup {DefaultMaxAttempts}

\* A 2 x WideCols grid whose pool is the vertical two-letter words of columns
\* 1 .. WideCols-2: pairwise disjoint, never covering the last column.
WideGrid == << [c \in 1..WideCols |-> IF c % 2 = 1 THEN "A" ELSE "B"],
               [c \in 1..WideCols |-> IF c % 2 = 1 THEN "B" ELSE "A"] >>
Column(c) == << <<0, c>>, <<1, c>> >>
WidePool == [k \in 1..(WideCols - 2) |-> PoolEntry(WideGrid, Column(k))]
WideCommitted == { <<>>, <<SetWordEntry(WideGrid, Column(0))>> }
\* The default budget, and one that runs out just before the first poll.
WideBudgets == {ProgressInterval - 1, DefaultMaxAttempts}

\* A 3 x 3 grid, the smallest with an interior cell, and paths whose position
\* scores differ (6, 3, 5, 4, 4) or whose lengths differ.
ScoreGrid == << <<"A", "B", "A">>, <<"B", "A", "B">>, <<"A", "B", "A">> >>
ScorePaths ==
    << << <<0, 0>>, <<0, 1>> >>,
       << <<0, 1>>, <<1, 1>> >>,
       << <<1, 1>>, <<2, 2>> >>,
       << <<1, 0>>, <<2, 1>> >>,
       << <<1, 2>>, <<2, 1>> >>,
       << <<0, 2>>, <<1, 2>>, <<2, 2>> >> >>
ScorePools ==
    {[k \in 1..Len(f) |-> PoolEntry(ScoreGrid, ScorePaths[f[k]])] :
        f \in {g \in UNION {[1..m -> 1..Len(ScorePaths)] : m \in 0..MaxPool} : Injective(g)}}

Scenarios ==
    {[grid |-> SmallGrid, pool |-> p, committed |-> c, budget |-> b] :
        p \in SmallPools, c \in SmallCommitted, b \in SmallBudgets}
    \cup
    {[grid |-> WideGrid, pool |-> WidePool, committed |-> c, budget |-> b] :
        c \in WideCommitted, b \in WideBudgets}
    \cup
    {[grid |-> ScoreGrid, pool |-> p, committed |-> <<>>, budget |-> DefaultMaxAttempts] :
        p \in ScorePools}

(***************************************************************************)
(* The prefix tree (wordManager.js 288-312).  A node holds its children,   *)
(* keyed by letter, and the end-of-word mark (the '$' key of the source).  *)
(***************************************************************************)
EmptyNode == [children |-> <<>>, end |-> FALSE]

\* Lines 291-298 for one word: walk down, creating the missing nodes, and mark
\* the last one.
RECURSIVE InsertWord(_, _)
InsertWord(node, word) ==
    IF word = <<>> THEN [node EXCEPT !.end = TRUE]
    ELSE LET letter == word[1]
             child == IF letter \in DOMAIN node.children
                      THEN node.children[letter] ELSE EmptyNode
             grown == InsertWord(child, Tail(word))
         IN [node EXCEPT !.children =
                [l \in (DOMAIN node.children) \cup {letter} |->
                    IF l = letter THEN grown ELSE node.children[l]]]

RECURSIVE InsertAll(_, _)
InsertAll(node, words) ==
    IF words = {} THEN node
    ELSE LET w == CHOOSE x \in words : TRUE
         IN InsertAll(InsertWord(node, w), words \ {w})

BuildPrefixTree(words) == InsertAll(EmptyNode, words)

\* Mutation: the walk stops being a prefix test and asks for a whole word.
RECURSIVE HasWholeWord(_, _)
HasWholeWord(node, prefix) ==
    IF prefix = <<>> THEN node.end
    ELSE IF prefix[1] \notin DOMAIN node.children THEN FALSE
    ELSE HasWholeWord(node.children[prefix[1]], Tail(prefix))

RECURSIVE HasPrefix(_, _)
HasPrefix(node, prefix) ==
    IF prefix = <<>> THEN TRUE
    ELSE IF prefix[1] \notin DOMAIN node.children THEN FALSE
    ELSE HasPrefix(node.children[prefix[1]], Tail(prefix))

(***************************************************************************)
(* findWordsDFS (wordManager.js 324-412).                                  *)
(***************************************************************************)
\* Mutation: the first offset is not a neighbour offset.
DirectionsWithJump ==
    << <<1, 2>>,   <<-1, 0>>, <<-1, 1>>,
       <<0, -1>>,             <<0, 1>>,
       <<1, -1>>,  <<1, 0>>,  <<1, 1>> >>

Directions ==
    << <<-1, -1>>, <<-1, 0>>, <<-1, 1>>,
       <<0, -1>>,             <<0, 1>>,
       <<1, -1>>,  <<1, 0>>,  <<1, 1>> >>

ToUpperCase(letter) ==
    CASE letter = "a" -> "A"
      [] letter = "b" -> "B"
      [] OTHER -> letter

\* uniqueWords is a Map: its entries keep the order of their first insertion.
\* Mutation: the map never reports a word as present.
MapHasNever(m, word) == FALSE

MapHas(m, word) == \E k \in 1..Len(m) : m[k].word = word
MapGet(m, word) == m[CHOOSE k \in 1..Len(m) : m[k].word = word].coords
MapSet(m, word, coords) ==
    IF MapHas(m, word)
    THEN [k \in 1..Len(m) |-> IF m[k].word = word THEN [word |-> word, coords |-> coords] ELSE m[k]]
    ELSE Append(m, [word |-> word, coords |-> coords])

\* Mutation: the path is stored without its last cell.
RecordWithoutLastCell(env, currentWord, currentPath, unique) ==
    IF /\ Len(currentWord) >= env.minLength
       /\ currentWord \in env.wordSet
       /\ currentWord \notin env.blacklistedWords
    THEN IF ~MapHas(unique, currentWord) \/ Len(currentPath) > Len(MapGet(unique, currentWord))
         THEN MapSet(unique, currentWord, SubSeq(currentPath, 1, Len(currentPath) - 1))
         ELSE unique
    ELSE unique

\* Mutation: the blacklist is not consulted.
RecordBlacklisted(env, currentWord, currentPath, unique) ==
    IF /\ Len(currentWord) >= env.minLength
       /\ currentWord \in env.wordSet
    THEN IF ~MapHas(unique, currentWord) \/ Len(currentPath) > Len(MapGet(unique, currentWord))
         THEN MapSet(unique, currentWord, currentPath)
         ELSE unique
    ELSE unique

\* Mutation: a path as long as the stored one replaces it.
RecordLatest(env, currentWord, currentPath, unique) ==
    IF /\ Len(currentWord) >= env.minLength
       /\ currentWord \in env.wordSet
       /\ currentWord \notin env.blacklistedWords
    THEN IF ~MapHas(unique, currentWord) \/ Len(currentPath) >= Len(MapGet(unique, currentWord))
         THEN MapSet(unique, currentWord, currentPath)
         ELSE unique
    ELSE unique

\* Lines 346-353: record the current word when it qualifies.
Record(env, currentWord, currentPath, unique) ==
    IF /\ Len(currentWord) >= env.minLength
       /\ currentWord \in env.wordSet
       /\ currentWord \notin env.blacklistedWords
    THEN IF ~MapHas(unique, currentWord) \/ Len(currentPath) > Len(MapGet(unique, currentWord))
         THEN MapSet(unique, currentWord, currentPath)
         ELSE unique
    ELSE unique

InBounds(env, row, col) ==
    ~(row < 0 \/ row >= env.rows \/ col < 0 \/ col >= env.cols)

\* Mutation: the backtracking step visited.delete is missing, so a cell stays
\* visited after the branch through it has ended.
RECURSIVE DfsLeaking(_, _, _, _, _, _, _)
RECURSIVE DfsLeakingDirections(_, _, _, _, _, _, _, _)
DfsLeaking(env, row, col, currentWord, currentPath, visited, unique) ==
    LET recorded == Record(env, currentWord, currentPath, unique)
    IN IF Len(currentWord) >= env.maxLength THEN [unique |-> recorded, visited |-> visited]
       ELSE IF ~HasPrefix(env.prefixTree, currentWord)
            THEN [unique |-> recorded, visited |-> visited]
       ELSE DfsLeakingDirections(env, 1, row, col, currentWord, currentPath, visited, recorded)

DfsLeakingDirections(env, k, row, col, currentWord, currentPath, visited, unique) ==
    IF k > Len(Directions) THEN [unique |-> unique, visited |-> visited]
    ELSE LET newRow == row + Directions[k][1]
             newCol == col + Directions[k][2]
             newPos == <<newRow, newCol>>
         IN IF \/ ~InBounds(env, newRow, newCol)
               \/ newPos \in visited
               \/ newPos \in env.usedPositions
            THEN DfsLeakingDirections(env, k + 1, row, col, currentWord, currentPath,
                                      visited, unique)
            ELSE LET found == DfsLeaking(env, newRow, newCol,
                                         Append(currentWord, ToUpperCase(LetterAt(env.grid, newPos))),
                                         Append(currentPath, newPos),
                                         visited \cup {newPos},
                                         unique)
                 IN IF Len(found.unique) >= Len(unique)
                    THEN DfsLeakingDirections(env, k + 1, row, col, currentWord, currentPath,
                                              found.visited, found.unique)
                    ELSE found

DfsWithoutBacktrack(env, row, col, currentWord, currentPath, visited, unique) ==
    DfsLeaking(env, row, col, currentWord, currentPath, visited, unique).unique

\* The dfs closure (lines 344-400) and its loop over the directions from the
\* k-th on; both return the uniqueWords map as the call leaves it.
RECURSIVE Dfs(_, _, _, _, _, _, _)
RECURSIVE DfsDirections(_, _, _, _, _, _, _, _)
Dfs(env, row, col, currentWord, currentPath, visited, unique) ==
    LET recorded == Record(env, currentWord, currentPath, unique)
    IN IF Len(currentWord) >= env.maxLength THEN recorded
       ELSE IF ~HasPrefix(env.prefixTree, currentWord) THEN recorded
       ELSE DfsDirections(env, 1, row, col, currentWord, currentPath, visited, recorded)

DfsDirections(env, k, row, col, currentWord, currentPath, visited, unique) ==
    IF k > Len(Directions) THEN unique
    ELSE LET newRow == row + Directions[k][1]
             newCol == col + Directions[k][2]
             newPos == <<newRow, newCol>>
         IN IF \/ ~InBounds(env, newRow, newCol)
               \/ newPos \in visited
               \/ newPos \in env.usedPositions
            THEN DfsDirections(env, k + 1, row, col, currentWord, currentPath, visited, unique)
            ELSE LET found == Dfs(env, newRow, newCol,
                                  Append(currentWord, ToUpperCase(LetterAt(env.grid, newPos))),
                                  Append(currentPath, newPos),
                                  visited \cup {newPos},
                                  unique)
                 \* The recursive call ends before the loop goes on: the test
                 \* (the map never shrinks) makes TLC evaluate it first.
                 IN IF Len(found) >= Len(unique)
                    THEN DfsDirections(env, k + 1, row, col, currentWord, currentPath,
                                       visited, found)
                    ELSE found

\* Mutation: among words of equal length the later one comes first.
RECURSIVE InsertByLengthLaterFirst(_, _)
InsertByLengthLaterFirst(x, s) ==
    IF s = <<>> THEN <<x>>
    ELSE IF Len(s[Len(s)].word) > Len(x.word)
         THEN Append(s, x)
         ELSE Append(InsertByLengthLaterFirst(x, SubSeq(s, 1, Len(s) - 1)), s[Len(s)])

\* Line 409: sort by word length, longest first; the sort is stable.
RECURSIVE InsertByLength(_, _)
InsertByLength(x, s) ==
    IF s = <<>> THEN <<x>>
    ELSE IF Len(s[Len(s)].word) >= Len(x.word)
         THEN Append(s, x)
         ELSE Append(InsertByLength(x, SubSeq(s, 1, Len(s) - 1)), s[Len(s)])

RECURSIVE SortByLength(_)
SortByLength(s) ==
    IF s = <<>> THEN <<>>
    ELSE InsertByLength(s[Len(s)], SortByLength(SubSeq(s, 1, Len(s) - 1)))

\* Mutation: the search goes one letter beyond maxLength.
FindEnvLongerByOne(args) ==
    [grid |-> grid, rows |-> Rows(grid), cols |-> Cols(grid),
     wordSet |-> wordSet, prefixTree |-> prefixTree,
     usedPositions |-> args.usedPositions, blacklistedWords |-> args.blacklistedWords,
     minLength |-> args.minLength, maxLength |-> args.maxLength + 1]

FindEnv(args) ==
    [grid |-> grid, rows |-> Rows(grid), cols |-> Cols(grid),
     wordSet |-> wordSet, prefixTree |-> prefixTree,
     usedPositions |-> args.usedPositions, blacklistedWords |-> args.blacklistedWords,
     minLength |-> args.minLength, maxLength |-> args.maxLength]

\* Mutation: the guard on an occupied start cell is missing.
FindWordsDFSFromUsedStart(args) ==
    LET env == FindEnv(args)
        start == <<args.startRow, args.startCol>>
    IN IF ~InBounds(env, args.startRow, args.startCol) THEN <<>>
       ELSE SortByLength(
                Dfs(env, args.startRow, args.startCol,
                    <<ToUpperCase(LetterAt(grid, start))>>, <<start>>, {start}, <<>>))

FindWordsDFS(args) ==
    LET env == FindEnv(args)
        start == <<args.startRow, args.startCol>>
    IN IF ~InBounds(env, args.startRow, args.startCol) THEN <<>>
       ELSE IF start \in args.usedPositions THEN <<>>
       ELSE SortByLength(
                Dfs(env, args.startRow, args.startCol,
                    <<ToUpperCase(LetterAt(grid, start))>>, <<start>>, {start}, <<>>))

(***************************************************************************)
(* Inputs of the findWordsDFS calls.                                       *)
(***************************************************************************)
Dictionary ==
    { <<"A", "B", "A", "B">>,
      <<"A", "B", "B", "A">>,
      <<"B", "A", "B", "A">>,
      <<"A", "B", "A", "B", "A">> }

SmallSets(S, n) == {T \in SUBSET S : Cardinality(T) <= n}

WordSets == SmallSets(Dictionary, MaxDict)
StartCells == AllCells(SmallGrid) \cup { <<-1, 0>>, <<0, Cols(SmallGrid)>> }
UsedSets == SmallSets(AllCells(SmallGrid), MaxUsed) \cup {AllCells(SmallGrid)}
Blacklists == {{}} \cup {{w} : w \in Dictionary}
MinLengths == {MinWordLength, MinWordLength + 1}
MaxLengths == {0, MinWordLength - 1, MinWordLength, MinWordLength + 1, DefaultMaxLength}

FindArgs ==
    {[startRow |-> c[1], startCol |-> c[2], usedPositions |-> u, blacklistedWords |-> b,
      minLength |-> mn, maxLength |-> mx] :
        c \in StartCells, u \in UsedSets, b \in Blacklists,
        mn \in MinLengths, mx \in MaxLengths}

NoArgs ==
    [startRow |-> 0, startCol |-> 0, usedPositions |-> {}, blacklistedWords |-> {},
     minLength |-> 0, maxLength |-> 0]

\* No pure helper has been called yet.
CallIdle ==
    /\ callName = "none"
    /\ callInput = <<>>
    /\ callOutput = <<>>

\* A timer callback of attemptSolve with what its closure holds; NoTimer when
\* there is none.
NoTimer == [set |-> FALSE, allPossibleWords |-> <<>>, live |-> FALSE, existingWords |-> <<>>,
            cancelRequested |-> FALSE]

\* new WordManager() (wordManager.js 7-14) and the StrandsApp constructor
\* (grid.js 565-577).
AppIdle ==
    /\ setWords = <<>>
    /\ blacklistedWords = {}
    /\ selectedSetWordIndex = -1
    /\ foundWordsData = <<>>
    /\ proposedWord = <<>>
    /\ solveCancelled = FALSE
    /\ timers = <<>>
    /\ running = NoTimer

FindIdle ==
    /\ findPc = "idle"
    /\ findArgs = NoArgs
    /\ findResult = <<>>

SolverIdle ==
    /\ allWords = <<>>
    /\ existingWords = <<>>
    /\ maxAttempts = DefaultMaxAttempts
    /\ prioritizedWords = <<>>
    /\ usedPositions = {}
    /\ currentSolution = <<>>
    /\ attempts = 0
    /\ bestSolution = <<>>
    /\ bestCoverage = 0
    /\ stack = <<>>
    /\ pc = "idle"
    /\ callArg = 0
    /\ retval = FALSE
    /\ result = Null
    /\ progressLog = <<>>
    /\ cancelSeen = FALSE
    /\ hookLog = <<>>
    /\ afterBudget = FALSE
    /\ peakCoverage = 0

\* new Solver(grid, wordSet), lines 269-275.
InitFind ==
    /\ grid = SmallGrid
    /\ wordSet \in WordSets
    /\ prefixTree = BuildPrefixTree(wordSet)
    /\ SolverIdle
    /\ FindIdle
    /\ CallIdle
    /\ AppIdle

FindWordsCall(args) ==
    /\ findPc = "idle"
    /\ findArgs' = args
    /\ findResult' = FindWordsDFS(args)
    /\ findPc' = "returned"
    /\ UNCHANGED <<objectVars, solverVars, callVars, appVars>>

\* The caller is done with the list; the next call may start.
FindWordsNext ==
    /\ findPc = "returned"
    /\ findPc' = "idle"
    /\ findArgs' = NoArgs
    /\ findResult' = <<>>
    /\ UNCHANGED <<objectVars, solverVars, callVars, appVars>>

NextFind ==
    \/ \E args \in FindArgs : FindWordsCall(args)
    \/ FindWordsNext

SpecFind == InitFind /\ [][NextFind]_vars

(***************************************************************************)
(* Queries of the dictionary of a Solver: hasPrefix (wordManager.js        *)
(* 304-312) and the membership test wordSet.has of line 342.               *)
(***************************************************************************)
Queries == UNION {[1..n -> {"A", "B"}] : n \in 0..MaxQuery}

HasPrefixCall(prefix) ==
    /\ callName' = "hasPrefix"
    /\ callInput' = prefix
    /\ callOutput' = HasPrefix(prefixTree, prefix)
    /\ UNCHANGED <<objectVars, solverVars, findVars, appVars>>

WordSetHasCall(word) ==
    /\ callName' = "wordSet.has"
    /\ callInput' = word
    /\ callOutput' = (word \in wordSet)
    /\ UNCHANGED <<objectVars, solverVars, findVars, appVars>>

NextTrie ==
    \/ \E x \in Queries : HasPrefixCall(x)
    \/ \E x \in Queries : WordSetHasCall(x)

SpecTrie == InitFind /\ [][NextTrie]_vars

(***************************************************************************)
(* loadWordList (grid.js 509-550) and the Solver built from what it        *)
(* returns (grid.js 599-606).                                              *)
(***************************************************************************)
IsWhitespace(char) == char \in {" ", "\n"}

\* String.prototype.trim.
RECURSIVE TrimStart(_)
TrimStart(line) ==
    IF line # <<>> /\ IsWhitespace(line[1]) THEN TrimStart(Tail(line)) ELSE line

RECURSIVE TrimEnd(_)
TrimEnd(line) ==
    IF line # <<>> /\ IsWhitespace(line[Len(line)])
    THEN TrimEnd(SubSeq(line, 1, Len(line) - 1)) ELSE line

Trim(line) == TrimEnd(TrimStart(line))

\* String.prototype.toUpperCase.
UpperCase(line) == [k \in 1..Len(line) |-> ToUpperCase(line[k])]

\* Line 519.
KeepLine(word) == Len(word) >= MinWordLength

\* Lines 516-522: the lines are added to a Set in order.
RECURSIVE LoadLines(_, _)
LoadLines(lines, set) ==
    IF lines = <<>> THEN set
    ELSE LET word == UpperCase(Trim(lines[1]))
         IN LoadLines(Tail(lines), IF KeepLine(word) THEN set \cup {word} ELSE set)

\* The lines of a word list file: letters in both cases, blanks around and
\* inside, characters that are no letters, short and long lines, repeats.
RawLines ==
    { <<>>,
      <<"a", "b", "a">>,
      <<"a", "b", "a", "b">>,
      <<"A", "B", "A", "B">>,
      <<"a", "B", "b", "A">>,
      <<" ", "a", "b", "a", "b", " ">>,
      <<" ", "a", "b", "a", " ">>,
      <<" ", " ", " ", " ">>,
      <<"a", "b", "1", "b">>,
      <<"a", "b", "-", "a", "b">>,
      <<"a", "b", " ", "a", "b">>,
      <<"a", "b", "a", "b", "a">> }

WordLists == UNION {[1..n -> RawLines] : n \in 0..MaxLines}

InitLoad ==
    /\ grid = SmallGrid
    /\ wordSet = {}
    /\ prefixTree = BuildPrefixTree({})
    /\ SolverIdle
    /\ FindIdle
    /\ CallIdle
    /\ AppIdle

\* The file is fetched (from the first or the second place).
LoadWordList(lines) ==
    /\ callName = "none"
    /\ callName' = "loadWordList"
    /\ callInput' = lines
    /\ callOutput' = LoadLines(lines, {})
    /\ wordSet' = callOutput'
    /\ prefixTree' = BuildPrefixTree(wordSet')
    /\ UNCHANGED <<grid, solverVars, findVars, appVars>>

\* Both fetches fail: line 548.
LoadWordListFails ==
    /\ callName = "none"
    /\ callName' = "loadWordList failed"
    /\ callInput' = <<>>
    /\ callOutput' = {}
    /\ wordSet' = {}
    /\ prefixTree' = BuildPrefixTree({})
    /\ UNCHANGED <<grid, solverVars, findVars, appVars>>

NextLoad ==
    \/ \E lines \in WordLists : LoadWordList(lines)
    \/ LoadWordListFails

SpecLoad == InitLoad /\ [][NextLoad]_vars

(***************************************************************************)
(* validateGridSize, validateGrid and parseTextGrid (utils.js 42-93).      *)
(***************************************************************************)
UpperLetters ==
    {"A", "B", "C", "D", "E", "F", "G", "H", "I", "J", "K", "L", "M",
     "N", "O", "P", "Q", "R", "S", "T", "U", "V", "W", "X", "Y", "Z"}

\* Line 43.
ValidateGridSize(rows, cols) ==
    rows > 0 /\ rows <= MaxGridSize /\ cols > 0 /\ cols <= MaxGridSize

\* Lines 51-72; /^[A-Z]$/ matches the one-letter strings A to Z.
ValidateGrid(g) ==
    IF Len(g) = 0 THEN FALSE
    ELSE LET cols == Len(g[1])
         IN IF cols = 0 THEN FALSE
            ELSE IF \E r \in 1..Len(g) : Len(g[r]) # cols THEN FALSE
            ELSE \A r \in 1..Len(g) : \A c \in 1..cols : g[r][c] \in UpperLetters

\* String.prototype.split on the line feed.
RECURSIVE SplitLines(_, _)
SplitLines(text, line) ==
    IF text = <<>> THEN <<line>>
    ELSE IF text[1] = "\n" THEN <<line>> \o SplitLines(Tail(text), <<>>)
    ELSE SplitLines(Tail(text), Append(line, text[1]))

\* filter(line => line.trim()) of line 80.
RECURSIVE NonBlank(_)
NonBlank(lines) ==
    IF lines = <<>> THEN <<>>
    ELSE IF Trim(lines[1]) # <<>> THEN <<lines[1]>> \o NonBlank(Tail(lines))
    ELSE NonBlank(Tail(lines))

\* replace(/[^A-Z]/g, '') of line 87.
RECURSIVE KeepLetters(_)
KeepLetters(line) ==
    IF line = <<>> THEN <<>>
    ELSE IF line[1] \in UpperLetters THEN <<line[1]>> \o KeepLetters(Tail(line))
    ELSE KeepLetters(Tail(line))

Cleaned(line) == KeepLetters(UpperCase(Trim(line)))

NoGrid == [isNull |-> TRUE, grid |-> <<>>]
SomeGrid(g) == [isNull |-> FALSE, grid |-> g]

\* Lines 79-93.
ParseTextGrid(text) ==
    LET lines == NonBlank(SplitLines(Trim(text), <<>>))
    IN IF Len(lines) = 0 THEN NoGrid
       ELSE LET cols == Len(lines[1])
                parsed == [k \in 1..Len(lines) |-> Cleaned(lines[k])]
            IN IF \E k \in 1..Len(lines) : Len(parsed[k]) # cols THEN NoGrid
               ELSE IF ValidateGrid(parsed) THEN SomeGrid(parsed) ELSE NoGrid

\* Arrays of rows of cells: letters, a digit, a two-letter string; and two
\* well-filled grids one row or one column beyond the largest size.
CellValues == {"A", "1", "AB"}
RowValues == UNION {[1..n -> CellValues] : n \in 0..MaxSide}
TallGrid == [r \in 1..(MaxGridSize + 1) |-> <<"A">>]
LongGrid == << [c \in 1..(MaxGridSize + 1) |-> "A"] >>
GridValues == UNION {[1..n -> RowValues] : n \in 0..MaxSide} \cup {TallGrid, LongGrid}

\* Texts typed or pasted: letters in both cases, a blank, a digit, line feeds.
TextChars == {"a", "B", " ", "1", "\n"}
TallText == [k \in 1..(2 * MaxGridSize + 1) |-> IF k % 2 = 1 THEN "a" ELSE "\n"]
LongText == [k \in 1..(MaxGridSize + 1) |-> "a"]
Texts == UNION {[1..n -> TextChars] : n \in 0..MaxText} \cup {TallText, LongText}

Sizes == {0, 1, MaxGridSize, MaxGridSize + 1}

ValidateGridSizeCall(rows, cols) ==
    /\ callName = "none"
    /\ callName' = "validateGridSize"
    /\ callInput' = <<rows, cols>>
    /\ callOutput' = ValidateGridSize(rows, cols)
    /\ UNCHANGED <<objectVars, solverVars, findVars, appVars>>

ValidateGridCall(g) ==
    /\ callName = "none"
    /\ callName' = "validateGrid"
    /\ callInput' = g
    /\ callOutput' = ValidateGrid(g)
    /\ UNCHANGED <<objectVars, solverVars, findVars, appVars>>

ParseTextGridCall(text) ==
    /\ callName = "none"
    /\ callName' = "parseTextGrid"
    /\ callInput' = text
    /\ callOutput' = ParseTextGrid(text)
    /\ UNCHANGED <<objectVars, solverVars, findVars, appVars>>

NextGridInput ==
    \/ \E rows \in Sizes, cols \in Sizes : ValidateGridSizeCall(rows, cols)
    \/ \E g \in GridValues : ValidateGridCall(g)
    \/ \E text \in Texts : ParseTextGridCall(text)

SpecGridInput == InitLoad /\ [][NextGridInput]_vars

(***************************************************************************)
(* The solver run.                                                         *)
(***************************************************************************)
Init ==
    /\ \E s \in Scenarios :
        /\ grid = s.grid
        /\ allWords = s.pool
        /\ existingWords = s.committed
        /\ maxAttempts = s.budget
    /\ wordSet = {}
    /\ prefixTree = BuildPrefixTree({})
    /\ prioritizedWords = <<>>
    /\ usedPositions = {}
    /\ currentSolution = <<>>
    /\ attempts = 0
    /\ bestSolution = <<>>
    /\ bestCoverage = 0
    /\ stack = <<>>
    /\ pc = "idle"
    /\ callArg = 0
    /\ retval = FALSE
    /\ result = Null
    /\ progressLog = <<>>
    /\ cancelSeen = FALSE
    /\ hookLog = <<>>
    /\ afterBudget = FALSE
    /\ peakCoverage = 0
    /\ FindIdle
    /\ CallIdle
    /\ AppIdle

inputVars == <<allWords, existingWords, maxAttempts>>

\* wordManager.js 423-453 and the call of line 530.
SolvePuzzleStart ==
    /\ pc = "idle"
    /\ usedPositions' = SolutionCells(existingWords)
    /\ currentSolution' = existingWords
    /\ attempts' = 0
    /\ bestSolution' = <<>>
    /\ bestCoverage' = Cardinality(SolutionCells(existingWords))
    /\ prioritizedWords' = Prioritize(allWords, Rows(grid), Cols(grid))
    /\ callArg' = 0
    /\ pc' = "enter"
    /\ peakCoverage' = Cardinality(SolutionCells(existingWords))
    /\ UNCHANGED <<inputVars, stack, retval, result, progressLog, cancelSeen, hookLog, afterBudget>>
    /\ UNCHANGED <<objectVars, findVars, callVars, appVars>>

TotalPositions == Rows(grid) * Cols(grid)

\* Mutation: the poll falls one attempt late.
IsPollOneLate(n) == n % ProgressInterval = 1

IsPoll(n) == n % ProgressInterval = 0

\* Lines 483-487: the best-so-far update of a poll.
PollBestCoverage(coverage) == IF coverage > bestCoverage THEN coverage ELSE bestCoverage
PollBestSolution(coverage) == IF coverage > bestCoverage THEN currentSolution ELSE bestSolution

\* Lines 489-492: the onProgress call.  coveragePercent is the quotient
\* coverage / totalPositions * 100, kept exact as numerator and denominator.
ProgressReport(n, coverage) ==
    [attempts |-> n, wordCount |-> Len(currentSolution),
     coveragePercent |-> [num |-> coverage * 100, den |-> TotalPositions]]

\* Lines 489-496: the two hooks a poll calls, in the order it calls them; each
\* entry keeps the attempts counter and bestCoverage as they are at the call,
\* and the entry of shouldCancel the answer it gave.
HookCalls(n, best, cancel) ==
    << [hook |-> "onProgress", attempts |-> n, bestCoverage |-> best, answer |-> FALSE],
       [hook |-> "shouldCancel", attempts |-> n, bestCoverage |-> best, answer |-> cancel] >>

\* Lines 499-507: what the call does after the poll.
\* Mutation: the coverage test is off by one.
CoverageAlmostComplete == Cardinality(usedPositions) >= TotalPositions - 1

CoverageComplete == Cardinality(usedPositions) = TotalPositions
OverBudget(n) == n > maxAttempts

\* solveRecursive from its entry to the loop (lines 478-508); cancel is the
\* answer of shouldCancel() when this call polls.
Enter(cancel) ==
    /\ pc = "enter"
    /\ attempts' = attempts + 1
    /\ LET n == attempts + 1
           coverage == Cardinality(usedPositions)
       IN /\ IF IsPoll(n)
             THEN /\ bestCoverage' = PollBestCoverage(coverage)
                  /\ bestSolution' = PollBestSolution(coverage)
                  /\ progressLog' = Append(progressLog, ProgressReport(n, coverage))
                  /\ cancelSeen' = (cancelSeen \/ cancel)
                  /\ hookLog' = hookLog \o HookCalls(n, PollBestCoverage(coverage), cancel)
             ELSE UNCHANGED <<bestCoverage, bestSolution, progressLog, cancelSeen, hookLog>>
          /\ IF IsPoll(n) /\ cancel
             THEN /\ pc' = "ret" /\ retval' = FALSE
                  /\ UNCHANGED <<stack, afterBudget>>
             ELSE IF CoverageComplete
             THEN /\ pc' = "ret" /\ retval' = TRUE
                  /\ UNCHANGED <<stack, afterBudget>>
             ELSE IF OverBudget(n)
             THEN /\ pc' = "ret" /\ retval' = FALSE /\ afterBudget' = TRUE
                  /\ UNCHANGED stack
             ELSE /\ pc' = "loop"
                  /\ stack' = Append(stack, [wordIndex |-> callArg, i |-> callArg])
                  /\ UNCHANGED <<retval, afterBudget>>
    /\ UNCHANGED <<inputVars, prioritizedWords, usedPositions, currentSolution, callArg, result,
                   peakCoverage>>
    /\ UNCHANGED <<objectVars, findVars, callVars, appVars>>

Top == stack[Len(stack)]
SetTopIndex(i) == [stack EXCEPT ![Len(stack)].i = i]
Pop == SubSeq(stack, 1, Len(stack) - 1)

\* Mutation: the snapshot is the array of the current placement itself, so it
\* changes with it.
SnapshotAliased(best, sol) == IF best = <<>> THEN best ELSE sol

\* Line 485 copies the list and every path array, so the push of line 468 and
\* the pop of line 472 leave a snapshot taken earlier as it is.
SnapshotAfter(best, sol) == best

\* Mutation: the recursive call starts over from the head of the pool.
NextStartIndexZero(i) == 0

\* Line 517: the argument of the recursive call.
NextStartIndex(i) == i + 1

\* Lines 510-517: the loop reaches a word that can be placed, places it and recurses.
LoopPlace ==
    /\ pc = "loop"
    /\ Top.i < Len(prioritizedWords)
    /\ LET w == prioritizedWords[Top.i + 1]
       IN /\ CanPlaceWord(w.coords, usedPositions)
          /\ usedPositions' = PlaceUsed(w.coords, usedPositions)
          /\ currentSolution' = PlaceSolution(w.word, w.coords, currentSolution)
          /\ peakCoverage' = IF Cardinality(PlaceUsed(w.coords, usedPositions)) > peakCoverage
                             THEN Cardinality(PlaceUsed(w.coords, usedPositions))
                             ELSE peakCoverage
    /\ callArg' = NextStartIndex(Top.i)
    /\ pc' = "enter"
    /\ bestSolution' = SnapshotAfter(bestSolution, currentSolution')
    /\ UNCHANGED <<inputVars, prioritizedWords, attempts, bestCoverage,
                   stack, retval, result, progressLog, cancelSeen, hookLog, afterBudget>>
    /\ UNCHANGED <<objectVars, findVars, callVars, appVars>>

\* Mutation: the loop stays on a word that cannot be placed.
AfterSkipSame(i) == i

\* Line 510: the i++ that follows a word that cannot be placed.
AfterSkip(i) == i + 1

\* Lines 510-513: the word at i cannot be placed; the loop goes on to i + 1.
LoopSkip ==
    /\ pc = "loop"
    /\ Top.i < Len(prioritizedWords)
    /\ ~CanPlaceWord(prioritizedWords[Top.i + 1].coords, usedPositions)
    /\ stack' = SetTopIndex(AfterSkip(Top.i))
    /\ UNCHANGED <<inputVars, prioritizedWords, usedPositions, currentSolution, attempts,
                   bestSolution, bestCoverage, pc, callArg, retval, result,
                   progressLog, cancelSeen, hookLog, afterBudget, peakCoverage>>
    /\ UNCHANGED <<objectVars, findVars, callVars, appVars>>

\* Line 526: the loop is over, the call returns false.
LoopExhausted ==
    /\ pc = "loop"
    /\ Top.i >= Len(prioritizedWords)
    /\ stack' = Pop
    /\ retval' = FALSE
    /\ pc' = "ret"
    /\ UNCHANGED <<inputVars, prioritizedWords, usedPositions, currentSolution, attempts,
                   bestSolution, bestCoverage, callArg, result,
                   progressLog, cancelSeen, hookLog, afterBudget, peakCoverage>>
    /\ UNCHANGED <<objectVars, findVars, callVars, appVars>>

\* Lines 517-519: the recursive call returned true, so does its caller.
ChildSucceeded ==
    /\ pc = "ret"
    /\ stack # <<>>
    /\ retval = TRUE
    /\ stack' = Pop
    /\ UNCHANGED <<inputVars, prioritizedWords, usedPositions, currentSolution, attempts,
                   bestSolution, bestCoverage, pc, callArg, retval, result,
                   progressLog, cancelSeen, hookLog, afterBudget, peakCoverage>>
    /\ UNCHANGED <<objectVars, findVars, callVars, appVars>>

\* Lines 517-523: the recursive call returned false; backtrack and go on to i + 1.
Backtrack ==
    /\ pc = "ret"
    /\ stack # <<>>
    /\ retval = FALSE
    /\ usedPositions' = RemoveUsed(currentSolution, usedPositions)
    /\ currentSolution' = RemoveSolution(currentSolution)
    /\ stack' = SetTopIndex(Top.i + 1)
    /\ pc' = "loop"
    /\ bestSolution' = SnapshotAfter(bestSolution, currentSolution')
    /\ UNCHANGED <<inputVars, prioritizedWords, attempts, bestCoverage,
                   callArg, retval, result, progressLog, cancelSeen, hookLog, afterBudget, peakCoverage>>
    /\ UNCHANGED <<objectVars, findVars, callVars, appVars>>

\* Lines 530-538: the value solvePuzzle returns.
\* Mutation: the fallback returns the committed list even when it is empty.
SolvePuzzleResultNoSentinel(completeSolution) ==
    IF completeSolution THEN Value(currentSolution)
    ELSE IF Len(bestSolution) > 0 THEN Value(bestSolution)
    ELSE Value(existingWords)

SolvePuzzleResult(completeSolution) ==
    IF completeSolution THEN Value(currentSolution)
    ELSE IF Len(bestSolution) > 0 THEN Value(bestSolution)
    ELSE IF Len(existingWords) > 0 THEN Value(existingWords) ELSE Null

Finish ==
    /\ pc = "ret"
    /\ stack = <<>>
    /\ result' = SolvePuzzleResult(retval)
    /\ pc' = "done"
    /\ UNCHANGED <<inputVars, prioritizedWords, usedPositions, currentSolution, attempts,
                   bestSolution, bestCoverage, stack, callArg, retval,
                   progressLog, cancelSeen, hookLog, afterBudget, peakCoverage>>
    /\ UNCHANGED <<objectVars, findVars, callVars, appVars>>

CancelAnswers == IF IsPoll(attempts + 1) THEN BOOLEAN ELSE {FALSE}

Next ==
    \/ SolvePuzzleStart
    \/ \E cancel \in CancelAnswers : Enter(cancel)
    \/ LoopPlace
    \/ LoopSkip
    \/ LoopExhausted
    \/ ChildSucceeded
    \/ Backtrack
    \/ Finish

Spec == Init /\ [][Next]_vars

\* The runs followed to their end: those on the small grid start from an
\* empty committed list, those on the wide grid from either of theirs.
InitFair == Init /\ (grid = SmallGrid => existingWords = <<>>)

\* solvePuzzle is one synchronous call: once called it goes on, statement by
\* statement, as long as it has a statement to run.
SpecFair == InitFair /\ [][Next]_vars /\ WF_vars(Next)

(***************************************************************************)
(* The application: WordManager (wordManager.js 6-262) and the handlers    *)
(* of StrandsApp (grid.js 564-1125) in solve mode, with the word list      *)
(* loaded.  A handler runs to its end before the next one starts; the      *)
(* callback that attemptSolve defers runs the whole search and applies     *)
(* its result before any other handler runs.                               *)
(***************************************************************************)
AppGrid == << <<"A", "B">>, <<"B", "A">> >>
AppDictionary == { <<"A", "B", "B", "A">> }

InitApp ==
    /\ grid = AppGrid
    /\ wordSet = AppDictionary
    /\ prefixTree = BuildPrefixTree(wordSet)
    /\ SolverIdle
    /\ FindIdle
    /\ CallIdle
    /\ AppIdle

\* WordManager.getUsedPositions.
GetUsedPositions(words) == UNION {CellsOf(words[k].coords) : k \in 1..Len(words)}

\* WordManager.addSetWord.
AddSetWord(words, word, positions) ==
    IF \E k \in 1..Len(words) : words[k].word = word THEN words
    ELSE Append(words, [word |-> word, coords |-> positions])

\* WordManager.removeSetWord for an index inside the list (counted from 0):
\* the list and the selection after the splice.
Splice(words, index) ==
    [k \in 1..(Len(words) - 1) |-> IF k <= index THEN words[k] ELSE words[k + 1]]
SelectionAfterRemove(selected, index) ==
    IF selected = index THEN -1
    ELSE IF selected > index THEN selected - 1
    ELSE selected

\* WordManager.selectSetWord.
ToggleSelection(selected, index) == IF selected = index THEN -1 ELSE index

\* clearSetWords gives WordManager a new array; a pending callback that got
\* the old array from getSetWords keeps it, with the words it held.
Detach(pending, words) ==
    [k \in 1..Len(pending) |->
        IF pending[k].live
        THEN [pending[k] EXCEPT !.live = FALSE, !.existingWords = words]
        ELSE pending[k]]

\* The findWordsDFS call of onCellClick and attemptSolve.
WordsFrom(cell, used, blacklist) ==
    FindWordsDFS([startRow |-> cell[1], startCol |-> cell[2], usedPositions |-> used,
                  blacklistedWords |-> blacklist,
                  minLength |-> MinWordLength, maxLength |-> DefaultMaxLength])

\* grid.js 1045-1046: the cells in the order of the two loops.
RowMajor(g) == [k \in 1..(Rows(g) * Cols(g)) |-> <<(k - 1) \div Cols(g), (k - 1) % Cols(g)>>]

\* grid.js 1045-1068.
RECURSIVE ScanPositions(_, _, _)
ScanPositions(cells, used, blacklist) ==
    IF cells = <<>> THEN <<>>
    ELSE LET wordsFromPos == WordsFrom(cells[1], used, blacklist)
         IN [k \in 1..Len(wordsFromPos) |->
                [word |-> wordsFromPos[k].word, coords |-> wordsFromPos[k].coords,
                 length |-> Len(wordsFromPos[k].coords)]]
            \o ScanPositions(Tail(cells), used, blacklist)

Ready == running = NoTimer

\* The index of the first set word that holds the cell, -1 when none does
\* (grid.js 838-849).
FoundWordIndex(cell) ==
    IF \E i \in 1..Len(setWords) : cell \in CellsOf(setWords[i].coords)
    THEN (CHOOSE i \in 1..Len(setWords) :
            /\ cell \in CellsOf(setWords[i].coords)
            /\ \A j \in 1..(i - 1) : cell \notin CellsOf(setWords[j].coords)) - 1
    ELSE -1

\* onCellClick (grid.js 794-890): what it leaves in the selection, the
\* possible words and the proposed word.
CellClickEffect(cell, blacklist) ==
    LET index == FoundWordIndex(cell)
    IN IF index >= 0
       THEN LET selected == ToggleSelection(selectedSetWordIndex, index)
            IN [selected |-> selected,
                found |-> foundWordsData,
                proposed |-> IF selected >= 0 THEN <<>> ELSE proposedWord]
       ELSE [selected |-> selectedSetWordIndex,
             found |-> WordsFrom(cell, GetUsedPositions(setWords), blacklist),
             proposed |-> <<>>]

OnCellClick(cell) ==
    /\ Ready
    /\ LET effect == CellClickEffect(cell, blacklistedWords)
       IN /\ selectedSetWordIndex' = effect.selected
          /\ foundWordsData' = effect.found
          /\ proposedWord' = effect.proposed
    /\ UNCHANGED <<setWords, blacklistedWords, solveCancelled, timers, running>>
    /\ UNCHANGED <<objectVars, solverVars, findVars, callVars>>

\* A click on an item of the possible words list (wordManager.js 191-205,
\* grid.js 892-899).
OnWordSelected(k) ==
    /\ Ready
    /\ k \in 1..Len(foundWordsData)
    /\ proposedWord' = foundWordsData[k].word
    /\ UNCHANGED <<setWords, blacklistedWords, selectedSetWordIndex, foundWordsData,
                   solveCancelled, timers, running>>
    /\ UNCHANGED <<objectVars, solverVars, findVars, callVars>>

\* The Add Word button (grid.js 901-923).
AddWordClick ==
    /\ Ready
    /\ proposedWord # <<>>
    /\ IF \E k \in 1..Len(foundWordsData) : foundWordsData[k].word = proposedWord
       THEN LET k == CHOOSE i \in 1..Len(foundWordsData) :
                        /\ foundWordsData[i].word = proposedWord
                        /\ \A j \in 1..(i - 1) : foundWordsData[j].word # proposedWord
            IN /\ setWords' = AddSetWord(setWords, foundWordsData[k].word,
                                         foundWordsData[k].coords)
               /\ proposedWord' = <<>>
       ELSE UNCHANGED <<setWords, proposedWord>>
    /\ UNCHANGED <<blacklistedWords, selectedSetWordIndex, foundWordsData,
                   solveCancelled, timers, running>>
    /\ UNCHANGED <<objectVars, solverVars, findVars, callVars>>

\* The Blacklist button (grid.js 925-938), with the onCellClick(0, 0) it ends
\* with.
BlacklistClick ==
    /\ Ready
    /\ proposedWord # <<>>
    /\ blacklistedWords' = blacklistedWords \cup {proposedWord}
    /\ LET index == FoundWordIndex(<<0, 0>>)
           selected == IF index >= 0 THEN ToggleSelection(selectedSetWordIndex, index)
                       ELSE selectedSetWordIndex
       IN /\ selectedSetWordIndex' = selected
          /\ foundWordsData' =
                IF index >= 0 THEN foundWordsData
                ELSE WordsFrom(<<0, 0>>, GetUsedPositions(setWords), blacklistedWords')
          /\ proposedWord' = <<>>
    /\ UNCHANGED <<setWords, solveCancelled, timers, running>>
    /\ UNCHANGED <<objectVars, solverVars, findVars, callVars>>

\* The Remove Selected button (grid.js 947-959, wordManager.js 61-66).
RemoveSelectedClick ==
    /\ Ready
    /\ selectedSetWordIndex >= 0
    /\ IF selectedSetWordIndex < Len(setWords)
       THEN /\ setWords' = Splice(setWords, selectedSetWordIndex)
            /\ selectedSetWordIndex' = -1
            /\ blacklistedWords' =
                    blacklistedWords \cup {setWords[selectedSetWordIndex + 1].word}
       ELSE UNCHANGED <<setWords, selectedSetWordIndex, blacklistedWords>>
    /\ UNCHANGED <<foundWordsData, proposedWord, solveCancelled, timers, running>>
    /\ UNCHANGED <<objectVars, solverVars, findVars, callVars>>

\* A click on item index of the set words list (wordManager.js 111-113).
SetWordClick(index) ==
    /\ Ready
    /\ index \in 0..(Len(setWords) - 1)
    /\ selectedSetWordIndex' = ToggleSelection(selectedSetWordIndex, index)
    /\ UNCHANGED <<setWords, blacklistedWords, foundWordsData, proposedWord,
                   solveCancelled, timers, running>>
    /\ UNCHANGED <<objectVars, solverVars, findVars, callVars>>

\* A double click on item index of the set words list (wordManager.js
\* 115-117, 35-47).
SetWordDblClick(index) ==
    /\ Ready
    /\ index \in 0..(Len(setWords) - 1)
    /\ setWords' = Splice(setWords, index)
    /\ selectedSetWordIndex' = SelectionAfterRemove(selectedSetWordIndex, index)
    /\ UNCHANGED <<blacklistedWords, foundWordsData, proposedWord,
                   solveCancelled, timers, running>>
    /\ UNCHANGED <<objectVars, solverVars, findVars, callVars>>

\* The Clear All button, once confirmed (grid.js 680-685).
ClearWordsClick ==
    /\ Ready
    /\ setWords' = <<>>
    /\ selectedSetWordIndex' = -1
    /\ timers' = Detach(timers, setWords)
    /\ UNCHANGED <<blacklistedWords, foundWordsData, proposedWord, solveCancelled, running>>
    /\ UNCHANGED <<objectVars, solverVars, findVars, callVars>>

\* The Solve button: attemptSolve up to its setTimeout (grid.js 985-1072).
SolveClick ==
    /\ Ready
    /\ Len(timers) < MaxTimers
    /\ wordSet # {}
    /\ solveCancelled' = FALSE
    /\ timers' = Append(timers,
            [set |-> TRUE,
             allPossibleWords |->
                ScanPositions(RowMajor(grid), GetUsedPositions(setWords), blacklistedWords),
             live |-> TRUE,
             existingWords |-> <<>>,
             cancelRequested |-> FALSE])
    /\ UNCHANGED <<setWords, blacklistedWords, selectedSetWordIndex, foundWordsData,
                   proposedWord, running>>
    /\ UNCHANGED <<objectVars, solverVars, findVars, callVars>>

\* The Cancel button (grid.js 1121-1125).  cancelRequested records, for the
\* properties, which deferred solves the click was made for.
CancelClick ==
    /\ Ready
    /\ solveCancelled' = TRUE
    /\ timers' = [k \in 1..Len(timers) |-> [timers[k] EXCEPT !.cancelRequested = TRUE]]
    /\ UNCHANGED <<setWords, blacklistedWords, selectedSetWordIndex, foundWordsData,
                   proposedWord, running>>
    /\ UNCHANGED <<objectVars, solverVars, findVars, callVars>>

\* The oldest deferred callback starts: the arguments of its solvePuzzle call
\* (grid.js 1073-1080).
TimerFires ==
    /\ Ready
    /\ timers # <<>>
    /\ running' = Head(timers)
    /\ timers' = Tail(timers)
    /\ allWords' = Head(timers).allPossibleWords
    /\ existingWords' = IF Head(timers).live THEN setWords ELSE Head(timers).existingWords
    /\ maxAttempts' = DefaultMaxAttempts
    /\ UNCHANGED <<prioritizedWords, usedPositions, currentSolution, attempts, bestSolution,
                   bestCoverage, stack, pc, callArg, retval, result, progressLog, cancelSeen,
                   hookLog, afterBudget, peakCoverage>>
    /\ UNCHANGED <<setWords, blacklistedWords, selectedSetWordIndex, foundWordsData,
                   proposedWord, solveCancelled>>
    /\ UNCHANGED <<objectVars, findVars, callVars>>

\* The solvePuzzle call of the callback; shouldCancel answers solveCancelled.
SolverRuns ==
    /\ running # NoTimer
    /\ \/ SolvePuzzleStart
       \/ Enter(solveCancelled)
       \/ LoopPlace
       \/ LoopSkip
       \/ LoopExhausted
       \/ ChildSucceeded
       \/ Backtrack
       \/ Finish

\* addSetWord for each word of the solution, in order (grid.js 1110-1112).
RECURSIVE AddAll(_, _)
AddAll(words, solution) ==
    IF solution = <<>> THEN words
    ELSE AddAll(AddSetWord(words, solution[1].word, solution[1].coords), Tail(solution))

\* The rest of the callback (grid.js 1082-1117).
CallbackEnds ==
    /\ running # NoTimer
    /\ pc = "done"
    /\ IF ~solveCancelled /\ ~result.isNull
       THEN /\ setWords' = AddAll(<<>>, result.words)
            /\ selectedSetWordIndex' = -1
            /\ timers' = Detach(timers, setWords)
       ELSE UNCHANGED <<setWords, selectedSetWordIndex, timers>>
    /\ running' = NoTimer
    /\ allWords' = <<>>
    /\ existingWords' = <<>>
    /\ maxAttempts' = DefaultMaxAttempts
    /\ prioritizedWords' = <<>>
    /\ usedPositions' = {}
    /\ currentSolution' = <<>>
    /\ attempts' = 0
    /\ bestSolution' = <<>>
    /\ bestCoverage' = 0
    /\ stack' = <<>>
    /\ pc' = "idle"
    /\ callArg' = 0
    /\ retval' = FALSE
    /\ result' = Null
    /\ progressLog' = <<>>
    /\ cancelSeen' = FALSE
    /\ hookLog' = <<>>
    /\ afterBudget' = FALSE
    /\ peakCoverage' = 0
    /\ UNCHANGED <<blacklistedWords, foundWordsData, proposedWord, solveCancelled>>
    /\ UNCHANGED <<objectVars, findVars, callVars>>

NextApp ==
    \/ \E cell \in AllCells(grid) : OnCellClick(cell)
    \/ \E k \in 1..Len(foundWordsData) : OnWordSelected(k)
    \/ AddWordClick
    \/ BlacklistClick
    \/ RemoveSelectedClick
    \/ \E index \in 0..(Len(setWords) - 1) : SetWordClick(index)
    \/ \E index \in 0..(Len(setWords) - 1) : SetWordDblClick(index)
    \/ ClearWordsClick
    \/ SolveClick
    \/ CancelClick
    \/ TimerFires
    \/ SolverRuns
    \/ CallbackEnds

SpecApp == InitApp /\ [][NextApp]_vars

(***************************************************************************)
(* The word-list handlers alone, with two words in the dictionary: the     *)
(* user edits the set words and never clicks Solve.                        *)
(***************************************************************************)
EditDictionary == { <<"A", "B", "B", "A">>, <<"A", "B", "A", "B">> }

InitEdit ==
    /\ grid = AppGrid
    /\ wordSet = EditDictionary
    /\ prefixTree = BuildPrefixTree(wordSet)
    /\ SolverIdle
    /\ FindIdle
    /\ CallIdle
    /\ AppIdle

NextEdit ==
    \/ \E cell \in AllCells(grid) : OnCellClick(cell)
    \/ \E k \in 1..Len(foundWordsData) : OnWordSelected(k)
    \/ AddWordClick
    \/ BlacklistClick
    \/ RemoveSelectedClick
    \/ \E index \in 0..(Len(setWords) - 1) : SetWordClick(index)
    \/ \E index \in 0..(Len(setWords) - 1) : SetWordDblClick(index)
    \/ ClearWordsClick

SpecEdit == InitEdit /\ [][NextEdit]_vars

(***************************************************************************)
(* The solve handlers on a single row that holds the one dictionary word   *)
(* twice, on disjoint cells.                                               *)
(***************************************************************************)
RowGrid == << <<"A", "B", "B", "A", "A", "B", "B", "A">> >>

InitRow ==
    /\ grid = RowGrid
    /\ wordSet = AppDictionary
    /\ prefixTree = BuildPrefixTree(wordSet)
    /\ SolverIdle
    /\ FindIdle
    /\ CallIdle
    /\ AppIdle

\* The user clicks Solve, Cancel and Clear All only.
NextRow ==
    \/ ClearWordsClick
    \/ SolveClick
    \/ CancelClick
    \/ TimerFires
    \/ SolverRuns
    \/ CallbackEnds

SpecRow == InitRow /\ [][NextRow]_vars

(***************************************************************************)
(* The prioritisation of solvePuzzle (wordManager.js 440-453) on grids up  *)
(* to the largest size, for pools of two candidates.                       *)
(***************************************************************************)
BlankGrid(rows, cols) == [r \in 1..rows |-> [c \in 1..cols |-> "A"]]
Dimensions == {1, 3, MaxGridSize}
BlankGrids == {BlankGrid(rows, cols) : rows \in Dimensions, cols \in Dimensions}

\* The cells of a grid that score n, in row-major order.
CellsScoring(g, n) ==
    LET Scores(cell) == CellScore(cell, Rows(g), Cols(g)) = n
    IN SelectSeq(RowMajor(g), Scores)

\* A path of distinct cells: the first a corners, b border cells and c inner
\* cells of the grid.  The position score does not look at the order of the
\* cells nor at their being neighbours.
CellsByKind(g, a, b, c) ==
    SubSeq(CellsScoring(g, 4), 1, a) \o SubSeq(CellsScoring(g, 2), 1, b)
        \o SubSeq(CellsScoring(g, 1), 1, c)

\* The most border cells on a candidate's path.
MaxBorderCells == 20

\* None or all of the corners, none, one or many of the border cells, and none,
\* one or one inner cell more than there are corners, or corners and border
\* cells.
KindCounts(g) ==
    LET corners == Len(CellsScoring(g, 4))
        border == Len(CellsScoring(g, 2))
        inner == Len(CellsScoring(g, 1))
    IN {k \in {0, corners} \X {0, 1, MaxBorderCells} \X (0..(corners + MaxBorderCells + 1)) :
            /\ k[2] <= border
            /\ k[3] <= inner
            /\ k[3] \in {0, 1, corners + 1, corners + MaxBorderCells + 1}
            /\ k[1] + k[2] + k[3] > 0}

Candidates2(g) == {PoolEntry(g, CellsByKind(g, k[1], k[2], k[3])) : k \in KindCounts(g)}

InitPriority ==
    /\ grid \in BlankGrids
    /\ wordSet = {}
    /\ prefixTree = BuildPrefixTree({})
    /\ SolverIdle
    /\ FindIdle
    /\ CallIdle
    /\ AppIdle

\* Lines 441-453 for a pool of two.
PrioritizeCall(first, second) ==
    /\ callName = "none"
    /\ callName' = "prioritize"
    /\ callInput' = <<first, second>>
    /\ callOutput' = Prioritize(<<first, second>>, Rows(grid), Cols(grid))
    /\ UNCHANGED <<objectVars, solverVars, findVars, appVars>>

NextPriority == \E first \in Candidates2(grid), second \in Candidates2(grid) :
                    PrioritizeCall(first, second)

SpecPriority == InitPriority /\ [][NextPriority]_vars

(***************************************************************************)
(* Properties of findWordsDFS.                                             *)
(***************************************************************************)
Returned == findPc = "returned"
StartCell == <<findArgs.startRow, findArgs.startCol>>
ValidStart == StartCell \in AllCells(grid) /\ StartCell \notin findArgs.usedPositions
FoundWords == {findResult[k].word : k \in 1..Len(findResult)}

Adjacent8(a, b) ==
    /\ a # b
    /\ a[1] - b[1] \in {-1, 0, 1}
    /\ a[2] - b[2] \in {-1, 0, 1}

\* Every simple 8-connected path of n cells from start that avoids used.
RECURSIVE SimplePaths(_, _, _, _)
SimplePaths(g, start, used, n) ==
    IF n <= 1 THEN {<<start>>}
    ELSE UNION {{Append(p, c) : c \in {x \in AllCells(g) \ (CellsOf(p) \cup used) :
                                            Adjacent8(p[Len(p)], x)}} :
                p \in SimplePaths(g, start, used, n - 1)}

Spellable(word) ==
    \E p \in SimplePaths(grid, StartCell, findArgs.usedPositions, Len(word)) :
        WordOf(grid, p) = word

ReachableWords ==
    {w \in wordSet :
        /\ w \notin findArgs.blacklistedWords
        /\ findArgs.minLength <= Len(w)
        /\ Len(w) <= findArgs.maxLength
        /\ Spellable(w)}

\* C1: from a valid start cell findWordsDFS returns exactly the dictionary
\* words, not blacklisted and within the length bounds, that some simple
\* 8-connected path from the start cell spells while avoiding the occupied
\* cells; prefix pruning loses none of them.
C1_FindsExactlyReachableWords ==
    (Returned /\ ValidStart) => FoundWords = ReachableWords

\* C1 witness: a call that returns two words of different lengths (the search
\* went on past a word) with an occupied cell and a blacklisted word of the
\* dictionary in play.
C1_Witness ==
    /\ Returned /\ ValidStart
    /\ findArgs.usedPositions # {}
    /\ \E k1, k2 \in 1..Len(findResult) :
          Len(findResult[k1].word) < Len(findResult[k2].word)
    /\ FoundWords = ReachableWords

\* C1 witness: a reachable dictionary word is left out because it is blacklisted.
C1_WitnessBlacklist ==
    /\ Returned /\ ValidStart
    /\ FoundWords # {}
    /\ \E w \in wordSet \cap findArgs.blacklistedWords :
          Spellable(w) /\ w \notin FoundWords

PathOf(k) == findResult[k].coords
Results == 1..Len(findResult)

\* C13: every returned path starts at the start cell, steps between
\* 8-neighbours, stays inside the grid and holds no cell twice.
C13_PathsAreSimple ==
    Returned =>
        \A k \in Results :
            /\ PathOf(k)[1] = StartCell
            /\ \A i \in 1..(Len(PathOf(k)) - 1) : Adjacent8(PathOf(k)[i], PathOf(k)[i + 1])
            /\ CellsOf(PathOf(k)) \subseteq AllCells(grid)
            /\ Injective(PathOf(k))

\* C13 witness: a five-cell path is returned on the six-cell grid, with a
\* cell of the path next to a cell the path visited two steps earlier.
C13_Witness ==
    /\ Returned
    /\ \E k \in Results :
          /\ Len(PathOf(k)) = 5
          /\ \E i \in 1..3 : Adjacent8(PathOf(k)[i], PathOf(k)[i + 2])

\* C14: the word of every returned candidate is the concatenation, in path
\* order, of the grid letters at the cells of its path.
C14_WordSpelledByPath ==
    Returned =>
        \A k \in Results :
            /\ Len(findResult[k].word) = Len(PathOf(k))
            /\ \A i \in 1..Len(PathOf(k)) :
                  findResult[k].word[i] = grid[PathOf(k)[i][1] + 1][PathOf(k)[i][2] + 1]

\* C14 witness: two candidates of different words are returned by one call.
C14_Witness ==
    /\ Returned
    /\ \E a, b \in Results :
          /\ Len(findResult[a].word) = Len(findResult[b].word)
          /\ findResult[a].word # findResult[b].word

\* C15: no returned path touches an occupied cell, no returned word is
\* blacklisted, every returned word is in the dictionary; a blacklist holding
\* the whole dictionary, or an occupied set holding every cell, leaves nothing.
C15_RespectsOccupiedAndBlacklist ==
    Returned =>
        /\ \A k \in Results :
              /\ CellsOf(PathOf(k)) \cap findArgs.usedPositions = {}
              /\ findResult[k].word \notin findArgs.blacklistedWords
              /\ findResult[k].word \in wordSet
        /\ (wordSet \subseteq findArgs.blacklistedWords => findResult = <<>>)
        /\ (AllCells(grid) \subseteq findArgs.usedPositions => findResult = <<>>)

\* C15 witness: a call that returns a word while an occupied cell lies next
\* to the start cell and a blacklisted dictionary word is spelled by a free path.
C15_Witness ==
    /\ Returned /\ ValidStart
    /\ findResult # <<>>
    /\ \E u \in findArgs.usedPositions : Adjacent8(StartCell, u)
    /\ \E w \in wordSet \cap findArgs.blacklistedWords :
          Len(w) <= findArgs.maxLength /\ Spellable(w)

\* C15 witness: the blacklist holds the whole, non-empty dictionary.
C15_WitnessAllBlacklisted ==
    /\ Returned /\ ValidStart
    /\ wordSet # {} /\ wordSet \subseteq findArgs.blacklistedWords
    /\ \E w \in wordSet : Spellable(w) /\ Len(w) <= findArgs.maxLength

\* C16: every returned word has minLength <= length <= maxLength, so nothing
\* is returned when minLength > maxLength, and a reachable dictionary word of
\* exactly maxLength letters is returned.
C16_LengthWithinBounds ==
    Returned =>
        /\ \A k \in Results :
              /\ findArgs.minLength <= Len(findResult[k].word)
              /\ Len(findResult[k].word) <= findArgs.maxLength
        /\ (findArgs.minLength > findArgs.maxLength => findResult = <<>>)
        /\ ValidStart =>
              \A w \in wordSet \ findArgs.blacklistedWords :
                  (Len(w) = findArgs.maxLength /\ findArgs.minLength <= Len(w) /\ Spellable(w))
                      => w \in FoundWords

\* C16 witness: a word of exactly maxLength letters is returned while a longer
\* dictionary word, spelled by a free path from the start cell, is cut off.
C16_Witness ==
    /\ Returned /\ ValidStart
    /\ \E w \in FoundWords : Len(w) = findArgs.maxLength
    /\ \E w \in wordSet \ findArgs.blacklistedWords :
          Len(w) > findArgs.maxLength /\ Spellable(w)

\* C16 witness: minLength > maxLength with a dictionary word in reach.
C16_WitnessEmptyRange ==
    /\ Returned /\ ValidStart
    /\ findArgs.minLength > findArgs.maxLength
    /\ \E w \in wordSet \ findArgs.blacklistedWords : Spellable(w)

\* C17: one call returns each word at most once.
C17_NoDuplicateWords ==
    Returned =>
        \A a, b \in Results : a # b => findResult[a].word # findResult[b].word

SpellingPaths(word) ==
    {p \in SimplePaths(grid, StartCell, findArgs.usedPositions, Len(word)) :
        WordOf(grid, p) = word}

\* C17 witness: a returned word that several paths from the start cell spell.
C17_Witness ==
    /\ Returned /\ ValidStart
    /\ \E w \in FoundWords : Cardinality(SpellingPaths(w)) >= 2

\* The uniqueWords map as the search of the last call leaves it: the words in
\* the order of their first discovery.
Discovered ==
    Dfs(FindEnv(findArgs), findArgs.startRow, findArgs.startCol,
        <<ToUpperCase(LetterAt(grid, StartCell))>>, <<StartCell>>, {StartCell}, <<>>)
DiscoveryIndex(word) == CHOOSE k \in 1..Len(Discovered) : Discovered[k].word = word

\* C18: the returned list is sorted by word length, longest first, and words
\* of equal length keep the order in which the search first recorded them.
C18_SortedByLengthStable ==
    (Returned /\ ValidStart) =>
        \A a, b \in Results :
            a < b =>
                \/ Len(findResult[a].word) > Len(findResult[b].word)
                \/ /\ Len(findResult[a].word) = Len(findResult[b].word)
                   /\ DiscoveryIndex(findResult[a].word) < DiscoveryIndex(findResult[b].word)

\* C18 witness: two words of equal length are returned, the alphabetically
\* later one first because the search recorded it first.
C18_Witness ==
    /\ Returned /\ ValidStart
    /\ Len(findResult) = 2
    /\ findResult[1].word = <<"A", "B", "B", "A">>
    /\ findResult[2].word = <<"A", "B", "A", "B">>
    /\ DiscoveryIndex(findResult[1].word) = 1

\* C18 witness: the same two words, recorded and returned in the other order.
C18_WitnessOtherOrder ==
    /\ Returned /\ ValidStart
    /\ Len(findResult) = 2
    /\ findResult[1].word = <<"A", "B", "A", "B">>
    /\ findResult[2].word = <<"A", "B", "B", "A">>

\* C18 witness: the sort moves a longer word in front of a shorter one that
\* the search recorded earlier.
C18_WitnessReordered ==
    /\ Returned /\ ValidStart
    /\ Len(findResult) = 2
    /\ Len(findResult[1].word) > Len(findResult[2].word)
    /\ DiscoveryIndex(findResult[1].word) = 2

\* C19: a start cell outside the grid, or an occupied one, gives the empty list.
C19_InvalidStartGivesEmpty ==
    (Returned /\ ~ValidStart) => findResult = <<>>

\* C19 witness: the start cell is occupied, and a dictionary word within the
\* length bounds is spelled from it by a path whose other cells are free.
C19_Witness ==
    /\ Returned
    /\ StartCell \in AllCells(grid) \cap findArgs.usedPositions
    /\ \E w \in wordSet \ findArgs.blacklistedWords :
          /\ findArgs.minLength <= Len(w) /\ Len(w) <= findArgs.maxLength
          /\ \E q \in SimplePaths(grid, StartCell, findArgs.usedPositions \ {StartCell}, Len(w)) :
                WordOf(grid, q) = w

\* C19 witness: the start cell is outside the grid.
C19_WitnessOutside ==
    /\ Returned
    /\ StartCell \notin AllCells(grid)
    /\ wordSet # {}

\* The list the last call would have returned with the occupied set O.
WithOccupied(O) == FindWordsDFS([findArgs EXCEPT !.usedPositions = O])
Candidates(list) == {list[k] : k \in 1..Len(list)}
Words(list) == {list[k].word : k \in 1..Len(list)}

\* C20 (as claimed): every candidate (word, path) returned with an occupied
\* set is also returned, same word and same path, with every smaller one.
C20_OccupiedMonotoneCandidates ==
    (Returned /\ findResult # <<>>) =>
        \A O \in SUBSET findArgs.usedPositions :
            Candidates(findResult) \subseteq Candidates(WithOccupied(O))

\* C20 (amended): every word returned with an occupied set is also returned
\* with every smaller one; the path kept for it may differ.
C20_OccupiedMonotoneWords ==
    (Returned /\ findResult # <<>>) =>
        \A O \in SUBSET findArgs.usedPositions :
            FoundWords \subseteq Words(WithOccupied(O))

\* C20 witness: enlarging the occupied set removes one word and keeps another.
C20_Witness ==
    /\ Returned /\ findResult # <<>>
    /\ findArgs.usedPositions # {}
    /\ FoundWords # Words(WithOccupied({}))

(***************************************************************************)
(* Properties of solvePuzzle.                                              *)
(***************************************************************************)
Done == pc = "done"
Coverage(sol) == Cardinality(SolutionCells(sol))
CommittedCells == SolutionCells(existingWords)
ResultComplete == ~result.isNull /\ SolutionCells(result.words) = AllCells(grid)

\* Some sub-collection of the pool, pairwise disjoint and disjoint from the
\* committed cells, covers exactly the cells committed leaves free.
ExactCoverExists ==
    \E S \in SUBSET (1..Len(allWords)) :
        /\ \A a \in S : CellsOf(allWords[a].coords) \cap CommittedCells = {}
        /\ \A a, b \in S : a # b =>
              CellsOf(allWords[a].coords) \cap CellsOf(allWords[b].coords) = {}
        /\ UNION {CellsOf(allWords[a].coords) : a \in S} = AllCells(grid) \ CommittedCells

\* C2: without cancellation and with the budget never exceeded, solvePuzzle
\* returns a complete placement exactly when the pool holds an exact cover of
\* the cells that committed leaves free.
C2_CompleteIffExactCover ==
    (Done /\ ~cancelSeen /\ attempts <= maxAttempts) => (ResultComplete <=> ExactCoverExists)

\* C2 witness: a complete placement found only after backtracking.
C2_Witness ==
    /\ Done /\ ~cancelSeen /\ attempts <= maxAttempts
    /\ ResultComplete /\ ExactCoverExists
    /\ Len(result.words) >= 2
    /\ attempts > Len(result.words) + 1

\* C3 (as claimed): when no complete placement is found but the search reached
\* a placement covering more cells than committed, the returned placement has
\* the largest coverage reached during the search.
C3_ReturnsBestReached ==
    (Done /\ ~retval /\ peakCoverage > Coverage(existingWords)) =>
        (~result.isNull /\ Coverage(result.words) = peakCoverage)

\* C4: every non-null result has pairwise cell-disjoint paths.
C4_ResultDisjoint ==
    (Done /\ ~result.isNull) => PairwiseDisjoint(result.words)

\* C4 witness: a best-so-far snapshot with a committed word and several pool
\* words is returned.
C4_Witness ==
    /\ Done /\ ~retval
    /\ result = Value(bestSolution)
    /\ existingWords # <<>>
    /\ Len(result.words) >= Len(existingWords) + 2

\* C5: a result returned through the SUCCESS branch covers every cell of the
\* grid, and when committed already covers the grid it is committed itself.
C5_SuccessCoversGrid ==
    (Done /\ retval) =>
        /\ SolutionCells(result.words) = AllCells(grid)
        /\ (CommittedCells = AllCells(grid) => result = Value(existingWords) /\ attempts = 1)

\* C5 witness: both cases, committed complete at the start, and a run that
\* places pool words.
C5_WitnessCommittedComplete ==
    Done /\ retval /\ CommittedCells = AllCells(grid) /\ allWords # <<>>

C5_Witness ==
    Done /\ retval /\ existingWords # <<>> /\ Len(result.words) > Len(existingWords)

IsPrefix(s, t) == Len(s) <= Len(t) /\ SubSeq(t, 1, Len(s)) = s
FromPool(entry) ==
    \E k \in 1..Len(allWords) :
        allWords[k].word = entry.word /\ allWords[k].coords = entry.coords

\* C6: committed stays an untouched prefix of the placement all through the
\* search, and every non-null result is committed followed by pool candidates.
C6_CommittedIsPrefix ==
    /\ pc \in {"enter", "loop", "ret", "done"} => IsPrefix(existingWords, currentSolution)
    /\ (Done /\ ~result.isNull) =>
          /\ IsPrefix(existingWords, result.words)
          /\ \A k \in (Len(existingWords) + 1)..Len(result.words) : FromPool(result.words[k])

\* C6 witness: a result with committed in front of pool words, reached after
\* backtracking.
C6_Witness ==
    /\ Done /\ ~result.isNull
    /\ existingWords # <<>>
    /\ Len(result.words) > Len(existingWords)
    /\ attempts > Len(result.words) + 1

\* C7: with no complete placement and no recorded better placement the result
\* is committed, or the null sentinel when committed is empty; an empty pool
\* always ends this way.
C7_FallbackResult ==
    /\ (Done /\ ~retval /\ bestSolution = <<>>) =>
          result = (IF existingWords # <<>> THEN Value(existingWords) ELSE Null)
    /\ (Done /\ allWords = <<>>) =>
          result = (IF existingWords # <<>> THEN Value(existingWords) ELSE Null)

\* C7 witness: the null sentinel is returned after a search over a non-empty pool.
C7_Witness ==
    Done /\ ~retval /\ existingWords = <<>> /\ allWords # <<>> /\ result = Null

\* C8 (as claimed): once shouldCancel() has returned true no further word is
\* placed and no further recursive call is made.
C8_CancelUnwinds ==
    [][cancelSeen => (attempts' = attempts /\ Len(currentSolution') <= Len(currentSolution))]_vars

\* C9 (as claimed): the attempts counter never exceeds maxAttempts by more
\* than the one call that detects the overrun.
C9_AttemptsBounded == attempts <= maxAttempts + 1

PercentLeq(p, q) == p.num * q.den <= q.num * p.den

\* C10 (as claimed): the coverage values of successive onProgress calls are
\* non-decreasing.
C10_ProgressMonotone ==
    \A k \in 1..(Len(progressLog) - 1) :
        PercentLeq(progressLog[k].coveragePercent, progressLog[k + 1].coveragePercent)

CancelCalls == SelectSeq(hookLog, LAMBDA e : e.hook = "shouldCancel")

\* shouldCancel() answered true at the first poll and at every poll after it.
CancelledFromFirstPoll ==
    /\ CancelCalls # <<>>
    /\ \A k \in 1..Len(CancelCalls) : CancelCalls[k].answer

ResultPercent == [num |-> Coverage(result.words) * 100, den |-> TotalPositions]
PercentEq(p, q) == p.num * q.den = q.num * p.den

\* C11 (as claimed): when shouldCancel() is true from the first poll on,
\* solvePuzzle returns a placement whose coverage equals the coverage of the
\* last onProgress call and is not below the coverage of any onProgress call.
C11_CancelReturnsLastReported ==
    (Done /\ CancelledFromFirstPoll) =>
        /\ ~result.isNull
        /\ PercentEq(ResultPercent, progressLog[Len(progressLog)].coveragePercent)
        /\ \A k \in 1..Len(progressLog) :
              PercentLeq(progressLog[k].coveragePercent, ResultPercent)

Polls == attempts \div ProgressInterval

C12_WitnessOverBudget ==
    /\ Done
    /\ maxAttempts < ProgressInterval
    /\ Len(progressLog) = 1
    /\ result = Value(bestSolution)

Started == pc # "idle"

IsCorner(cell) == cell[1] \in {0, Rows(grid) - 1} /\ cell[2] \in {0, Cols(grid) - 1}
OnBorder(cell) == cell[1] \in {0, Rows(grid) - 1} \/ cell[2] \in {0, Cols(grid) - 1}
ClaimedScore(coords) ==
    4 * Cardinality({i \in DOMAIN coords : IsCorner(coords[i])})
    + 2 * Cardinality({i \in DOMAIN coords : OnBorder(coords[i]) /\ ~IsCorner(coords[i])})
    + Cardinality({i \in DOMAIN coords : ~OnBorder(coords[i])})
ClaimedPriority(entry) == (0 - Len(entry.word) * 1000) - ClaimedScore(entry.coords)

ClaimedPriorities == [k \in 1..Len(allWords) |-> ClaimedPriority(allWords[k])]

\* The place of pool entry k in the ascending order by the priorities P in
\* which entries of equal priority keep their pool order.
Rank(P, k) ==
    1 + Cardinality({j \in DOMAIN P : P[j] < P[k] \/ (P[j] = P[k] /\ j < k)})

PrioritizedIndex(entry) ==
    CHOOSE i \in 1..Len(prioritizedWords) :
        prioritizedWords[i].word = entry.word /\ prioritizedWords[i].coords = entry.coords

\* C22: from the start of the search to its end prioritizedWords is the pool
\* in ascending order of -(word length)*1000 - positionScore (4 per corner
\* cell, 2 per other border cell, 1 per interior cell), entries of equal
\* priority in pool order; the words placed on top of committed are taken
\* from it in increasing position.
C22_PoolOrderedByPriority ==
    Started =>
        /\ Len(prioritizedWords) = Len(allWords)
        /\ LET P == ClaimedPriorities
           IN \A k \in 1..Len(allWords) :
                 LET r == Rank(P, k)
                 IN /\ prioritizedWords[r].word = allWords[k].word
                    /\ prioritizedWords[r].coords = allWords[k].coords
                    /\ prioritizedWords[r].priority = P[k]
        /\ \A a \in (Len(existingWords) + 1)..(Len(currentSolution) - 1) :
              PrioritizedIndex(currentSolution[a]) < PrioritizedIndex(currentSolution[a + 1])

\* C22 witness: a finished search on the 3 x 3 grid whose pool holds a path
\* through the interior cell and two entries of equal priority, and is not
\* in priority order itself.
C22_Witness ==
    /\ Done
    /\ grid = ScoreGrid
    /\ \E k \in 1..Len(allWords) : \E i \in DOMAIN allWords[k].coords : ~OnBorder(allWords[k].coords[i])
    /\ \E j, k \in 1..Len(allWords) :
          j < k /\ ClaimedPriority(allWords[j]) = ClaimedPriority(allWords[k])
    /\ \E k \in 1..Len(allWords) : Rank(ClaimedPriorities, k) # k
    /\ attempts > 2

(***************************************************************************)
(* The dictionary queries.                                                 *)
(***************************************************************************)
\* The walk of the trie along the letters of a word ends on a node marked as
\* the end of a word.
RECURSIVE EndsOnTerminal(_, _)
EndsOnTerminal(node, word) ==
    IF word = <<>> THEN node.end
    ELSE IF word[1] \notin DOMAIN node.children THEN FALSE
    ELSE EndsOnTerminal(node.children[word[1]], Tail(word))

\* C23: hasPrefix(x) is true exactly when some dictionary word starts with x,
\* and a word is in the word set exactly when the walk of the trie along its
\* letters ends on a terminal node.
C23_PrefixAndMembership ==
    /\ callName = "hasPrefix" =>
          (callOutput <=> \E w \in wordSet : IsPrefix(callInput, w))
    /\ callName = "wordSet.has" =>
          (callOutput <=> EndsOnTerminal(prefixTree, callInput))

\* C24: a Solver built from an empty word set answers false to every query,
\* the empty prefix included.
C24_EmptyDictionaryAllFalse ==
    (wordSet = {} /\ callName \in {"hasPrefix", "wordSet.has"}) => callOutput = FALSE

(***************************************************************************)
(* The word list loader.                                                   *)
(***************************************************************************)
OnlyLetters(word) == \A k \in 1..Len(word) : word[k] \in {"A", "B"}
Normalised(line) == UpperCase(Trim(line))
LinesOf(lines) == {lines[k] : k \in 1..Len(lines)}

\* C25: the loaded dictionary holds the trimmed, uppercased form of a line
\* exactly when that form has only letters A-Z and at least 4 of them.
C25_KeepsOnlyLetterWords ==
    callName = "loadWordList" =>
        wordSet = {Normalised(l) : l \in {x \in LinesOf(callInput) :
                        OnlyLetters(Normalised(x)) /\ Len(Normalised(x)) >= MinWordLength}}

(***************************************************************************)
(* Grid construction.                                                      *)
(***************************************************************************)
WellFormedGrid(g) ==
    /\ Len(g) \in 1..MaxGridSize
    /\ Len(g[1]) \in 1..MaxGridSize
    /\ \A r \in 1..Len(g) : Len(g[r]) = Len(g[1])
    /\ \A r \in 1..Len(g) : \A c \in 1..Len(g[r]) : g[r][c] \in UpperLetters

\* C29: validateGrid returns true, and parseTextGrid returns a grid, only for
\* a grid of 1 to 20 rows and 1 to 20 columns, all rows of one length, every
\* cell one letter A-Z.
C29_OnlyWellFormedGrids ==
    /\ (callName = "validateGrid" /\ callOutput = TRUE) => WellFormedGrid(callInput)
    /\ (callName = "parseTextGrid" /\ ~callOutput.isNull) => WellFormedGrid(callOutput.grid)

(***************************************************************************)
(* The path kept for a word.                                               *)
(***************************************************************************)
\* The place in the neighbour order of the step from one cell to the next.
DirectionIndex(from, to) ==
    CHOOSE k \in 1..Len(Directions) :
        to = <<from[1] + Directions[k][1], from[2] + Directions[k][2]>>

\* Two paths of one length from one start: the search reaches p before q when
\* at their first difference p takes the earlier direction.
ReachedBefore(p, q) ==
    \E i \in 1..(Len(p) - 1) :
        /\ \A j \in 1..i : p[j] = q[j]
        /\ p[i + 1] # q[i + 1]
        /\ DirectionIndex(p[i], p[i + 1]) < DirectionIndex(q[i], q[i + 1])

\* C30: the path returned for a word has as many cells as the word has
\* letters and is the first path spelling the word in the neighbour order of
\* the search: every other such path is reached after it.
C30_FirstPathKept ==
    Returned =>
        \A k \in Results :
            /\ Len(PathOf(k)) = Len(findResult[k].word)
            /\ PathOf(k) \in SpellingPaths(findResult[k].word)
            /\ \A q \in SpellingPaths(findResult[k].word) \ {PathOf(k)} :
                    ReachedBefore(PathOf(k), q)

\* C30 witness: a returned word that three or more paths spell, one of them
\* leaving the start cell in another direction than the returned path, one
\* parting from it later.
C30_Witness ==
    /\ Returned /\ ValidStart
    /\ \E k \in Results :
        /\ Cardinality(SpellingPaths(findResult[k].word)) >= 3
        /\ \E q \in SpellingPaths(findResult[k].word) : q[2] # PathOf(k)[2]
        /\ \E q \in SpellingPaths(findResult[k].word) :
                q[2] = PathOf(k)[2] /\ q # PathOf(k)

(***************************************************************************)
(* The application.                                                        *)
(***************************************************************************)
\* C26: there are never two solves in flight: with the deferred callbacks
\* still to run and the one running counted, at most one at any time.
C26_OneSolveInFlight ==
    Len(timers) + (IF running # NoTimer THEN 1 ELSE 0) <= 1

\* C27: a solve for which Cancel was clicked while it was deferred never
\* changes the set words when its callback ends.
C27_CancelledSolveLeavesSetWords ==
    [][(running # NoTimer /\ running.cancelRequested /\ pc = "done")
            => setWords' = setWords]_vars

\* C28: a word that the Remove Selected button or a double click on a set
\* word takes out of the set words is in the blacklist afterwards.
C28_RemovedWordsBlacklisted ==
    [][(RemoveSelectedClick \/ \E index \in 0..(Len(setWords) - 1) : SetWordDblClick(index))
            => \A k \in 1..Len(setWords) :
                    (\A j \in 1..Len(setWords') : setWords'[j] # setWords[k])
                        => setWords[k].word \in blacklistedWords']_vars

(***************************************************************************)
(* The order of the placed words.                                          *)
(***************************************************************************)
Searching == pc \in {"enter", "loop"} \/ (pc = "ret" /\ ~retval)
PlacedCount == Len(currentSolution) - Len(existingWords)

\* The place in prioritizedWords (counted from 0) of the d-th word placed on
\* top of committed: the loop variable of the call that placed it.
PlacedIndex(d) == stack[d].i

\* C31: during the search the words placed on top of committed are the pool
\* entries at strictly increasing places of prioritizedWords, each call
\* looping from the place after the word its caller placed; so no pool entry
\* is placed twice and a placement is explored in one order only.
C31_PlacedIndicesIncrease ==
    Searching =>
        /\ PlacedCount <= Len(stack)
        /\ \A d \in 1..PlacedCount :
            /\ PlacedIndex(d) \in 0..(Len(prioritizedWords) - 1)
            /\ currentSolution[Len(existingWords) + d].word =
                    prioritizedWords[PlacedIndex(d) + 1].word
            /\ currentSolution[Len(existingWords) + d].coords =
                    prioritizedWords[PlacedIndex(d) + 1].coords
            /\ PlacedIndex(d) >= stack[d].wordIndex
        /\ \A d \in 1..(PlacedCount - 1) : PlacedIndex(d) < PlacedIndex(d + 1)
        /\ \A d \in 1..(Len(stack) - 1) : stack[d + 1].wordIndex > stack[d].i

\* C31 witness: after a backtrack, two words are placed and the second is not
\* the pool entry right after the first.
C31_Witness ==
    /\ Searching
    /\ PlacedCount >= 2
    /\ PlacedIndex(2) > PlacedIndex(1) + 1
    /\ PlacedIndex(1) > 0

(***************************************************************************)
(* The best-so-far snapshot.                                               *)
(***************************************************************************)
\* C32: a best-so-far snapshot covers bestCoverage distinct cells for as long
\* as it is kept and when it is returned, and only a poll replaces it: the
\* steps that place or remove a word leave it as it is.
C32_SnapshotKept ==
    /\ [](bestSolution # <<>> => Coverage(bestSolution) = bestCoverage)
    /\ []((Done /\ ~retval /\ bestSolution # <<>>) =>
            (result = Value(bestSolution) /\ Coverage(result.words) = bestCoverage))
    /\ [][bestSolution' # bestSolution => (pc = "enter" /\ IsPoll(attempts'))]_vars

\* C32 witness: a snapshot is returned after the search went on placing and
\* removing words, and differs from the placement the search ended with.
C32_Witness ==
    /\ Done /\ ~retval
    /\ bestSolution # <<>>
    /\ result = Value(bestSolution)
    /\ currentSolution # bestSolution
    /\ attempts > ProgressInterval + 1

(***************************************************************************)
(* Length against position score.                                         *)
(***************************************************************************)
Prioritized == callName = "prioritize"

\* The entry of the sorted pool that came from pool entry k.
SortedFrom(k) ==
    CHOOSE i \in 1..Len(callOutput) :
        callOutput[i].word = callInput[k].word /\ callOutput[i].coords = callInput[k].coords

\* C33: of two candidates the strictly longer one gets the strictly smaller
\* priority value and stands first in the prioritized pool, whatever the
\* position scores.
C33_LengthOutweighsPosition ==
    Prioritized =>
        \A j, k \in 1..2 :
            Len(callInput[j].coords) > Len(callInput[k].coords) =>
                /\ callOutput[SortedFrom(j)].priority < callOutput[SortedFrom(k)].priority
                /\ SortedFrom(j) < SortedFrom(k)

\* C33 witness: on a grid of the largest size the longer candidate is one
\* cell longer and has the lower position score, and it was second in the pool.
C33_Witness ==
    /\ Prioritized
    /\ Rows(grid) = MaxGridSize /\ Cols(grid) = MaxGridSize
    /\ Len(callInput[2].coords) = Len(callInput[1].coords) + 1
    /\ callOutput[SortedFrom(2)].positionScore < callOutput[SortedFrom(1)].positionScore
    /\ SortedFrom(2) = 1

(***************************************************************************)
(* The placement and the used cells across calls of solveRecursive.        *)
(***************************************************************************)
\* The committed paths are pairwise disjoint and no path repeats a cell.
SimpleDisjointInputs ==
    /\ PairwiseDisjoint(existingWords)
    /\ \A k \in 1..Len(existingWords) : Injective(existingWords[k].coords)
    /\ \A k \in 1..Len(allWords) : Injective(allWords[k].coords)

\* The placement a call finds at its entry: the committed words, then the word
\* each of its callers placed before calling (the word at the caller's i).
PlacementAtEntry ==
    existingWords \o
        [d \in 1..Len(stack) |->
            [word |-> prioritizedWords[stack[d].i + 1].word,
             coords |-> prioritizedWords[stack[d].i + 1].coords]]

AtEntry == pc = "enter"
ReturnedFalse == pc = "ret" /\ ~retval

\* C34: with pairwise disjoint committed paths and paths without repeated
\* cells, at every entry to solveRecursive usedPositions is the union of the
\* cells of the words of currentSolution, and a call that has returned false
\* has left currentSolution and usedPositions as they were at its entry: the
\* committed words followed by the words its callers placed, and their cells.
C34_EntryAndFalseReturn ==
    (SimpleDisjointInputs /\ (AtEntry \/ ReturnedFalse)) =>
        /\ usedPositions = SolutionCells(currentSolution)
        /\ currentSolution = PlacementAtEntry
        /\ stack = <<>> => (currentSolution = existingWords /\ usedPositions = CommittedCells)

\* C34 witness: a call below the top one has returned false after words were
\* placed and removed inside it, with neither the budget nor a cancel at work.
C34_Witness ==
    /\ SimpleDisjointInputs
    /\ ReturnedFalse
    /\ stack # <<>>
    /\ existingWords # <<>>
    /\ peakCoverage > Cardinality(usedPositions)
    /\ Len(currentSolution) > Len(existingWords)
    /\ ~afterBudget /\ ~cancelSeen

(***************************************************************************)
(* The deferred solve and the set words at the time it runs.              *)
(***************************************************************************)
Listed(entry, list) ==
    \E k \in 1..Len(list) : list[k].word = entry.word /\ list[k].coords = entry.coords

\* The callback ends and applies a solution.
AppliesSolution ==
    /\ running # NoTimer
    /\ pc = "done"
    /\ ~solveCancelled /\ ~result.isNull
    /\ running' = NoTimer

\* C37: a deferred solve runs on the set words as they are when its callback
\* runs, and what it writes back keeps every set word of that moment and adds
\* only words of its pool: it restores no word removed or cleared since the
\* click and drops no word added since.
C37_SolveUsesCurrentSetWords ==
    /\ [](running # NoTimer => existingWords = setWords)
    /\ [][AppliesSolution =>
            /\ \A k \in 1..Len(setWords) : Listed(setWords[k], setWords')
            /\ \A k \in 1..Len(setWords') :
                  Listed(setWords'[k], setWords) \/ Listed(setWords'[k], allWords)]_vars

(***************************************************************************)
(* The set words as a placement.                                           *)
(***************************************************************************)
\* C35: whatever the user does, the paths of any two set words share no cell.
C35_SetWordsDisjoint == PairwiseDisjoint(setWords)

(***************************************************************************)
(* The solution a solve returns and the set words it leaves.               *)
(***************************************************************************)
\* C36: when a solve that was not cancelled returns a solution, the set words
\* are that solution afterwards, word by word and path by path in the same
\* order, so that a solution covering the grid leaves set words covering it.
C36_AppliedEqualsSolution ==
    [][AppliesSolution =>
        /\ Len(setWords') = Len(result.words)
        /\ \A k \in 1..Len(result.words) :
              /\ setWords'[k].word = result.words[k].word
              /\ setWords'[k].coords = result.words[k].coords
        /\ SolutionCells(result.words) = AllCells(grid) =>
              GetUsedPositions(setWords') = AllCells(grid)]_vars

(***************************************************************************)
(* Termination of solvePuzzle.                                             *)
(***************************************************************************)
\* C38: every run of solvePuzzle comes to its return, whatever the pool, the
\* committed list, the budget and the answers of the cancel hook.
C38_Terminates == <>Done

\* C38 witness: a run has returned after the budget was exceeded and after
\* the cancel hook answered true, with calls made past both.
C38_Witness ==
    /\ Done
    /\ afterBudget
    /\ cancelSeen
    /\ attempts > ProgressInterval
    /\ attempts > maxAttempts + 1

====
